---------------------------- MODULE Spec2Model ----------------------------
(***************************************************************************)
(* Eager association loading of pop (eager.go): the eager-mode controller  *)
(* (process-wide, connection-scoped and query-scoped mode) and the default *)
(* N+1 loading strategy, modelled as a state machine with an explicit call *)
(* stack for the recursion of eagerLoadDefault.                            *)
(***************************************************************************)
EXTENDS Integers, Sequences, FiniteSets, TLC

VARIABLES
    emode,      \* the package variable emode
    queries,    \* the Query objects created so far (a sequence of records)
    given,      \* per query: what its caller did with it (bookkeeping)
    stack,      \* the activation records of eagerLoadDefault, top last
    mem,        \* the model passed to the load call: path -> value
    sub,        \* the sub-query the running/last call executed last
    call,       \* bookkeeping of the running/last eagerLoad call
    res         \* the value returned by the last eagerLoad call, or Running/Idle

vars == <<emode, queries, given, stack, mem, sub, call, res>>

-----------------------------------------------------------------------------
(* Bounds of the model *)

MaxQueries == 2     \* Query objects created in one behaviour
MaxElems == 2       \* elements of a collection model passed to a load call
MaxRows == 1        \* rows a fetch-all returns

-----------------------------------------------------------------------------
(* eagerMode and its constants *)

EagerDefault == 0
EagerCache == 1
eagerNotSpecified == 2

(* The values of eagerMode (a uint8) a caller passes: the three constants  *)
(* and the first value outside them.                                       *)
EagerModes == {EagerDefault, EagerCache, eagerNotSpecified, eagerNotSpecified + 1}

(* Error values. Nil is Go's nil error. *)
Nil == "nil"
ErrNoRows == "sql.ErrNoRows"
ErrWrappedNoRows == "wrapped: sql.ErrNoRows"
ErrDB == "db error"
ErrIntrospect == "introspection error"
ErrUnsupportedMode == "eager mode is not supported by pop"

(* errors.Cause: unwraps a wrapped error down to its root cause. *)
Cause(err) == IF err = ErrWrappedNoRows THEN ErrNoRows ELSE err

Idle == "idle"
Running == "running"

Range(s) == {s[k] : k \in 1..Len(s)}

-----------------------------------------------------------------------------
(* The model types the caller declares, and what introspection yields.     *)

(* Declared associations of each model type, in field order. *)
Decls(type) ==
    CASE type = "Author" ->
           << [name |-> "Books", kind |-> "Slice", type |-> "Book", sortable |-> TRUE],
              [name |-> "Profile", kind |-> "Struct", type |-> "Leaf", sortable |-> FALSE] >>
      [] type = "Book" ->
           << [name |-> "Publisher", kind |-> "Struct", type |-> "Leaf", sortable |-> FALSE] >>
      [] OTHER -> << >>

OrderClauses == {"", "title asc"}

(* The inner associations a descriptor may carry: (Name, Fields) pairs,    *)
(* Name a field of the owning record.                                      *)
InnerChoices(type, d) ==
    IF type = "Author" /\ d.name = "Books"
    THEN { << >>, << [Name |-> "Books", Fields |-> "Publisher"] >> }
    ELSE { << >> }

(* The descriptors introspection may build for one declared association:   *)
(* Skipped() depends on the record's data, OrderBy() exists only on a      *)
(* sortable association.                                                   *)
Variants(type, d) ==
    { [name |-> d.name, kind |-> d.kind, type |-> d.type, sortable |-> d.sortable,
       skipped |-> sk, orderBy |-> ob, inner |-> inn] :
         sk \in BOOLEAN,
         ob \in (IF d.sortable THEN OrderClauses ELSE {""}),
         inn \in InnerChoices(type, d) }

RECURSIVE Combos(_, _)
Combos(type, ds) ==
    IF ds = << >> THEN { << >> }
    ELSE { <<h>> \o t : h \in Variants(type, Head(ds)), t \in Combos(type, Tail(ds)) }

(* The whitelist: when it is non-empty only the associations named in it   *)
(* are returned.                                                           *)
Whitelisted(fields, name) == Len(fields) = 0 \/ name \in Range(fields)

(* associations.AssociationsForStruct(model, fields...): the descriptor    *)
(* sequences it may return for a record of the given type.                 *)
AssociationsForStruct(type, fields) ==
    Combos(type, SelectSeq(Decls(type), LAMBDA d : Whitelisted(fields, d.name)))

-----------------------------------------------------------------------------
(* The model in memory: a map from paths to values. A path is a sequence   *)
(* of field names and element indexes (as strings) from the root model.    *)

ElemAt(p, k) == Append(p, ToString(k))
FieldAt(p, name) == Append(p, name)

IsPrefix(p, q) == Len(p) <= Len(q) /\ SubSeq(q, 1, Len(p)) = p

StructVal(type, val) == [kind |-> "Struct", type |-> type, len |-> 0, val |-> val]
SliceVal(type, n, val) == [kind |-> "Slice", type |-> type, len |-> n, val |-> val]

(* A record of a type at path p whose association fields hold their zero   *)
(* value, or (pre) what an earlier load left in them.                      *)
RECURSIVE Alloc(_, _, _, _)
RECURSIVE AllocFields(_, _, _)
Alloc(p, type, val, pre) ==
    (p :> StructVal(type, val)) @@ AllocFields(p, Decls(type), pre)
AllocFields(p, ds, pre) ==
    IF ds = << >> THEN << >>
    ELSE LET d == Head(ds)
             f == FieldAt(p, d.name)
             here == IF d.kind = "Slice"
                     THEN IF pre
                          THEN (f :> SliceVal(d.type, 1, "old"))
                               @@ Alloc(ElemAt(f, 0), d.type, "old", FALSE)
                          ELSE (f :> SliceVal(d.type, 0, "zero"))
                     ELSE Alloc(f, d.type, IF pre THEN "old" ELSE "zero", FALSE)
         IN here @@ AllocFields(p, Tail(ds), pre)

RECURSIVE AllocElems(_, _, _, _, _)
AllocElems(p, type, n, val, pre) ==
    IF n = 0 THEN << >>
    ELSE Alloc(ElemAt(p, n - 1), type, val, pre) @@ AllocElems(p, type, n - 1, val, pre)

(* The models a caller passes to a load call. *)
ShapesOf(types, maxn) ==
    { [root |-> "Struct", type |-> t, n |-> 0, pre |-> pre, val |-> "old"] :
         t \in types, pre \in BOOLEAN }
    \cup { [root |-> "Slice", type |-> t, n |-> n, pre |-> pre, val |-> "old"] :
             t \in types, n \in 0..maxn, pre \in BOOLEAN }

(* A record the caller never filled in: its key fields hold the zero value. *)
KeylessShapes ==
    { [root |-> "Struct", type |-> "Book", n |-> 0, pre |-> FALSE, val |-> "zero"] }

InitialMem(shape) ==
    IF shape.root = "Slice"
    THEN (<< >> :> SliceVal(shape.type, shape.n, shape.val))
         @@ AllocElems(<< >>, shape.type, shape.n, shape.val, shape.pre)
    ELSE Alloc(<< >>, shape.type, shape.val, shape.pre)

(* mem without everything strictly below p *)
Without(m, p) ==
    [x \in {y \in DOMAIN m : ~(IsPrefix(p, y) /\ y # p)} |-> m[x]]

(* query.All(dest): scans n rows into the collection at p. *)
All(m, p, type, n) ==
    (p :> SliceVal(type, n, "new")) @@ AllocElems(p, type, n, "new", FALSE) @@ Without(m, p)

(* query.First(dest): scans the first row into the record at p. *)
First(m, p, type) ==
    Alloc(p, type, "new", FALSE) @@ Without(m, p)

-----------------------------------------------------------------------------
(* The eager-mode controller *)

NoCall == [q |-> 0, strategy |-> "none", emode |-> EagerDefault,
           mode0 |-> eagerNotSpecified, fields0 |-> << >>, mem0 |-> << >>,
           explicit |-> FALSE, stale |-> FALSE]

NoQuery == [n |-> 0]

(* The connections a query may be made on. *)
Connections == {"c1", "c2"}

(* Q(c): a new query; its mode is eagerNotSpecified. *)
Q(fields) ==
    [eagerMode |-> eagerNotSpecified, eagerFields |-> fields, Connection |-> "c1"]

NewQuery(fields) ==
    /\ res # Running
    /\ Len(queries) < MaxQueries
    /\ queries' = Append(queries, Q(fields))
    /\ given' = Append(given, [explicit |-> FALSE, stale |-> FALSE])
    /\ UNCHANGED <<emode, stack, mem, sub, call, res>>

(* Faulty variant of SetEagerMode: the mode is also stored in every query. *)
SetEagerModeAll(m) ==
    /\ res # Running
    /\ emode' = m
    /\ queries' = [k \in DOMAIN queries |-> [queries[k] EXCEPT !.eagerMode = m]]
    /\ given' = [k \in DOMAIN given |->
                   [given[k] EXCEPT !.stale = given[k].stale \/ m # emode]]
    /\ UNCHANGED <<stack, mem, sub, call, res>>

(* func SetEagerMode(m): the process-wide mode. *)
SetEagerMode(m) ==
    /\ res # Running
    /\ emode' = m
    /\ given' = [k \in DOMAIN given |->
                   [given[k] EXCEPT !.stale = given[k].stale \/ m # emode]]
    /\ UNCHANGED <<queries, stack, mem, sub, call, res>>

(* func (q *Query) SetEagerMode(m) *)
QuerySetEagerMode(q, m) ==
    /\ res # Running
    /\ q \in DOMAIN queries
    /\ queries' = [queries EXCEPT ![q].eagerMode = m]
    /\ given' = [given EXCEPT ![q].explicit = TRUE]
    /\ UNCHANGED <<emode, stack, mem, sub, call, res>>

(* func (c *Connection) SetEagerMode(m): Q(c).SetEagerMode(m) *)
ConnSetEagerMode(m) ==
    /\ res # Running
    /\ Len(queries) < MaxQueries
    /\ queries' = Append(queries, [Q(<< >>) EXCEPT !.eagerMode = m])
    /\ given' = Append(given, [explicit |-> TRUE, stale |-> FALSE])
    /\ UNCHANGED <<emode, stack, mem, sub, call, res>>

(* Faulty variants of ResolveMode: the unspecified mode bound to the       *)
(* initial process-wide mode; the query's own mode ignored.                *)
ResolveModeEarly(qmode, em) == IF qmode = eagerNotSpecified THEN EagerDefault ELSE qmode
ResolveModeGlobal(qmode, em) == em

(* eagerLoad, lines 49-51: the mode the query dispatches on. *)
ResolveMode(qmode, em) == IF qmode = eagerNotSpecified THEN em ELSE qmode

(* Faulty variants of Dispatch: an unknown mode falls back to the default  *)
(* strategy; the cache mode runs the default strategy.                     *)
DispatchFallback(m) == IF m = EagerCache THEN "cache" ELSE "default"
DispatchCacheAsDefault(m) ==
    IF m \in {EagerDefault, EagerCache} THEN "default" ELSE "unsupported"

(* eagerLoad, lines 52-59: the switch. *)
Dispatch(m) ==
    CASE m = EagerDefault -> "default"
      [] m = EagerCache -> "cache"
      [] OTHER -> "unsupported"

(* eagerLoadCache: returns nil and does nothing else. *)
eagerLoadCache(m) == [mem |-> m, err |-> Nil]

(* The activation record of eagerLoadDefault(model) at its first statement *)
(* after the kind test of lines 66-68.                                     *)
Frame(m, p) ==
    [model |-> p, pc |-> IF m[p].kind = "Slice" THEN "loop" ELSE "intro",
     i |-> 0, assos |-> << >>, a |-> 1, j |-> 1]

eagerLoad(q, shape) ==
    /\ res # Running
    /\ q \in DOMAIN queries
    /\ LET m0 == InitialMem(shape)
           qm == ResolveMode(queries[q].eagerMode, emode)
           st == Dispatch(qm)
       IN /\ queries' = [queries EXCEPT ![q].eagerMode = qm]
          /\ call' = [q |-> q, strategy |-> st, emode |-> emode,
                      mode0 |-> queries[q].eagerMode,
                      fields0 |-> queries[q].eagerFields, mem0 |-> m0,
                      explicit |-> given[q].explicit, stale |-> given[q].stale]
          /\ sub' = NoQuery
          /\ CASE st = "default" ->
                    /\ mem' = m0
                    /\ stack' = << Frame(m0, << >>) >>
                    /\ res' = Running
               [] st = "cache" ->
                    /\ mem' = eagerLoadCache(m0).mem
                    /\ stack' = << >>
                    /\ res' = eagerLoadCache(m0).err
               [] OTHER ->
                    /\ mem' = m0
                    /\ stack' = << >>
                    /\ res' = ErrUnsupportedMode
    /\ UNCHANGED <<emode, given>>

-----------------------------------------------------------------------------
(* eagerLoadDefault *)

Top == stack[Len(stack)]
SetTop(f) == [stack EXCEPT ![Len(stack)] = f]

(* Faulty variant of Propagates: the caller goes on after a callee's error. *)
PropagatesNever(err) == FALSE

(* "if err != nil { return err }" after every call, lines 72-74, 129-131 *)
Propagates(err) == err # Nil

(* The caller's frame after a callee returned nil: the next element of the *)
(* loop of lines 70-75, the next inner association of lines 125-132.       *)
(* Faulty variant of Resume: the loop over the elements does not advance. *)
ResumeStuck(f) ==
    IF f.pc = "loop" THEN f ELSE [f EXCEPT !.j = f.j + 1]

Resume(f) ==
    IF f.pc = "loop" THEN [f EXCEPT !.i = f.i + 1] ELSE [f EXCEPT !.j = f.j + 1]

(* The top activation returns err. *)
Return(err) ==
    LET rest == SubSeq(stack, 1, Len(stack) - 1)
    IN IF Propagates(err) \/ rest = << >>
       THEN stack' = << >> /\ res' = err
       ELSE /\ stack' = [rest EXCEPT ![Len(rest)] = Resume(rest[Len(rest)])]
            /\ res' = res

(* lines 66-77: the model is a slice or an array *)
LoopStep ==
    /\ res = Running
    /\ Top.pc = "loop"
    /\ IF Top.i < mem[Top.model].len
       THEN /\ stack' = Append(stack, Frame(mem, ElemAt(Top.model, Top.i)))
            /\ res' = res
       ELSE Return(Nil)
    /\ UNCHANGED <<emode, queries, given, mem, sub, call>>

(* Faulty variant of Introspect: a failed introspection returns nil. *)
IntrospectSwallowsError ==
    /\ res = Running
    /\ Top.pc = "intro"
    /\ \/ Return(Nil)
       \/ \E as \in AssociationsForStruct(mem[Top.model].type,
                                          queries[call.q].eagerFields) :
             /\ stack' = SetTop([Top EXCEPT !.pc = "assoc", !.assos = as, !.a = 1])
             /\ res' = res
    /\ UNCHANGED <<emode, queries, given, mem, sub, call>>

(* lines 79-83 *)
Introspect ==
    /\ res = Running
    /\ Top.pc = "intro"
    /\ \/ Return(ErrIntrospect)
       \/ \E as \in AssociationsForStruct(mem[Top.model].type,
                                          queries[call.q].eagerFields) :
             /\ stack' = SetTop([Top EXCEPT !.pc = "assoc", !.assos = as, !.a = 1])
             /\ res' = res
    /\ UNCHANGED <<emode, queries, given, mem, sub, call>>

(* Faulty variant of Skipped: the skip test always fails. *)
SkippedNever(d) == FALSE

(* association.Skipped(), line 86 *)
Skipped(d) == d.skipped

(* lines 86-88 *)
AssocSkip ==
    /\ res = Running
    /\ Top.pc = "assoc"
    /\ Top.a <= Len(Top.assos)
    /\ Skipped(Top.assos[Top.a])
    /\ stack' = SetTop([Top EXCEPT !.a = Top.a + 1])
    /\ UNCHANGED <<emode, queries, given, mem, sub, call, res>>

NoOrder == "<no order>"

(* Faulty variant of OrderOf: the clause is applied even when it is empty. *)
OrderAlways(d) == IF d.sortable THEN d.orderBy ELSE NoOrder

(* lines 96-106: the order clause of the sub-query *)
OrderOf(d) == IF d.sortable /\ d.orderBy # "" THEN d.orderBy ELSE NoOrder

(* line 93, association.Constraint(): the predicate and its arguments, the *)
(* key values of the owning record as they are (zero when never set); no   *)
(* error comes back.                                                       *)
Constraint(m, p, d) == [whereCondition |-> d.name, args |-> m[p].val]

(* Faulty variant of SubQuery: eager loading is left on. *)
SubQueryEager(p, d) ==
    [model |-> p, name |-> d.name, eager |-> TRUE, order |-> OrderOf(d),
     op |-> IF d.kind = "Slice" THEN "All" ELSE "First",
     Connection |-> queries[call.q].Connection,
     args |-> Constraint(mem, p, d).args]

(* lines 90-109: the sub-query of association d of the record at p *)
SubQuery(p, d) ==
    [model |-> p, name |-> d.name, eager |-> FALSE, order |-> OrderOf(d),
     op |-> IF d.kind = "Slice" THEN "All" ELSE "First",
     Connection |-> queries[call.q].Connection,
     args |-> Constraint(mem, p, d).args]

(* Faulty variants of Fatal: no-rows is not tolerated; no error is fatal. *)
FatalAny(err) == err # Nil
FatalNever(err) == FALSE

(* line 119 *)
Fatal(err) == err # Nil /\ Cause(err) # ErrNoRows

FetchErrors == {ErrNoRows, ErrWrappedNoRows, ErrDB}

(* What the database answers to a sub-query. *)
Outcomes(d) ==
    { [err |-> e, rows |-> 0] : e \in FetchErrors }
    \cup { [err |-> Nil, rows |-> n] : n \in (IF d.kind = "Slice" THEN 0..MaxRows ELSE {1}) }

(* lines 111-117: the fetch into the association's field *)
Fetch(m, p, d, out) ==
    IF out.err # Nil THEN m
    ELSE IF d.kind = "Slice" THEN All(m, p, d.type, out.rows) ELSE First(m, p, d.type)

(* lines 90-121 *)
AssocFetch ==
    /\ res = Running
    /\ Top.pc = "assoc"
    /\ Top.a <= Len(Top.assos)
    /\ ~Skipped(Top.assos[Top.a])
    /\ LET d == Top.assos[Top.a]
       IN \E out \in Outcomes(d) :
            /\ sub' = SubQuery(Top.model, d) @@ [n |-> sub.n + 1, err |-> out.err]
            /\ mem' = Fetch(mem, FieldAt(Top.model, d.name), d, out)
            /\ IF Fatal(out.err)
               THEN Return(out.err)
               ELSE stack' = SetTop([Top EXCEPT !.pc = "inner", !.j = 1]) /\ res' = res
    /\ UNCHANGED <<emode, queries, given, call>>

(* lines 124-132 *)
InnerStep ==
    /\ res = Running
    /\ Top.pc = "inner"
    /\ LET inner == Top.assos[Top.a].inner
       IN IF Top.j <= Len(inner)
          THEN /\ queries' = [queries EXCEPT
                                ![call.q].eagerFields = << inner[Top.j].Fields >>]
               /\ stack' = Append(stack, Frame(mem, FieldAt(Top.model, inner[Top.j].Name)))
          ELSE /\ queries' = queries
               /\ stack' = SetTop([Top EXCEPT !.pc = "assoc", !.a = Top.a + 1])
    /\ UNCHANGED <<emode, given, mem, sub, call, res>>

(* line 134 *)
(* Faulty variant of ReturnNil: a record without associations is an error. *)
ReturnErrorWhenEmpty ==
    /\ res = Running
    /\ Top.pc = "assoc"
    /\ Top.a > Len(Top.assos)
    /\ Return(IF Top.assos = << >> THEN ErrDB ELSE Nil)
    /\ UNCHANGED <<emode, queries, given, mem, sub, call>>

ReturnNil ==
    /\ res = Running
    /\ Top.pc = "assoc"
    /\ Top.a > Len(Top.assos)
    /\ Return(Nil)
    /\ UNCHANGED <<emode, queries, given, mem, sub, call>>

eagerLoadDefault == LoopStep \/ Introspect \/ AssocSkip \/ AssocFetch \/ InnerStep \/ ReturnNil

-----------------------------------------------------------------------------
(* Specifications *)

(* The mode controller with every setter, each load on a collection of one *)
(* Book.                                                                   *)
CtlShapes == { [root |-> "Slice", type |-> "Book", n |-> 1, pre |-> FALSE, val |-> "old"] }

Init ==
    /\ emode = EagerDefault
    /\ queries = << >>
    /\ given = << >>
    /\ stack = << >>
    /\ mem = << >>
    /\ sub = NoQuery
    /\ call = NoCall
    /\ res = Idle

Next ==
    \/ NewQuery(<< >>)
    \/ \E m \in EagerModes : SetEagerMode(m)
    \/ \E m \in EagerModes : ConnSetEagerMode(m)
    \/ \E q \in 1..MaxQueries, m \in EagerModes : QuerySetEagerMode(q, m)
    \/ \E q \in 1..MaxQueries, shape \in CtlShapes : eagerLoad(q, shape)
    \/ eagerLoadDefault

Spec == Init /\ [][Next]_vars

(* One query, its mode left unspecified or set to cache before the first   *)
(* load, loading models of every shape; no setter is called afterwards.    *)
Shapes == ShapesOf({"Author", "Leaf"}, MaxElems) \cup KeylessShapes
Whitelists == { << >>, << "Books" >> }

InitLoad ==
    /\ emode \in {EagerDefault, EagerCache}
    /\ \E m \in {eagerNotSpecified, EagerCache}, w \in Whitelists, c \in Connections :
          /\ queries = << [Q(w) EXCEPT !.eagerMode = m, !.Connection = c] >>
          /\ given = << [explicit |-> m # eagerNotSpecified, stale |-> FALSE] >>
    /\ stack = << >>
    /\ mem = << >>
    /\ sub = NoQuery
    /\ call = NoCall
    /\ res = Idle

NextLoad ==
    \/ \E shape \in Shapes : eagerLoad(1, shape)
    \/ eagerLoadDefault

SpecLoad == InitLoad /\ [][NextLoad]_vars

-----------------------------------------------------------------------------
(* Claims about the eager-mode controller, checked under Spec *)

(* The strategy that belongs to a mode. *)
StrategyOf(m) ==
    IF m = EagerDefault THEN "default"
    ELSE IF m = EagerCache THEN "cache" ELSE "unsupported"

(* C1: late binding. A load by a query whose mode is unspecified when the  *)
(* load starts dispatches according to the process-wide mode in force at   *)
(* that moment, whatever it was when the query was created.                *)
C1_LateBinding ==
    (call.q # 0 /\ call.mode0 = eagerNotSpecified)
        => call.strategy = StrategyOf(call.emode)

(* A load in cache mode by an unspecified query created before the         *)
(* process-wide mode was changed.                                          *)
C1_Witness ==
    /\ call.q # 0
    /\ call.mode0 = eagerNotSpecified
    /\ ~call.explicit
    /\ call.stale
    /\ call.emode = EagerCache
    /\ call.strategy = "cache"

(* C2: precedence. A load by a query whose caller gave it a mode, and      *)
(* whose mode is default or cache, dispatches according to the query's     *)
(* mode, whatever the process-wide mode is.                                *)
C2_Precedence ==
    (call.q # 0 /\ call.explicit /\ call.mode0 \in {EagerDefault, EagerCache})
        => call.strategy = StrategyOf(call.mode0)

(* An explicit default query loading while the process-wide mode, changed  *)
(* since the query was created, is cache.                                  *)
C2_Witness ==
    /\ call.q # 0
    /\ call.explicit
    /\ call.stale
    /\ call.mode0 = EagerDefault
    /\ call.emode = EagerCache
    /\ call.strategy = "default"

(* C3: every load by a query whose caller never gave it a mode dispatches  *)
(* according to the process-wide mode in force when the load runs,         *)
(* including a later load of a query that loaded before.                   *)
C3_GlobalModeEveryLoad ==
    (call.q # 0 /\ ~call.explicit) => call.strategy = StrategyOf(call.emode)

(* C4: when the mode reached at dispatch is neither default nor cache the  *)
(* load returns the configuration error, runs no strategy and issues no    *)
(* sub-query: the model is as the caller passed it.                        *)
C4_UnsupportedMode ==
    (/\ call.q # 0
     /\ \/ call.mode0 \notin {EagerDefault, EagerCache, eagerNotSpecified}
        \/ /\ call.mode0 = eagerNotSpecified
           /\ call.emode \notin {EagerDefault, EagerCache})
        => /\ res = ErrUnsupportedMode
           /\ res # Nil
           /\ stack = << >>
           /\ sub = NoQuery
           /\ mem = call.mem0

(* An unspecified query resolved against an unknown process-wide mode. *)
C4_Witness ==
    /\ call.q # 0
    /\ call.mode0 = eagerNotSpecified
    /\ call.emode \notin {EagerDefault, EagerCache, eagerNotSpecified}
    /\ res = ErrUnsupportedMode

-----------------------------------------------------------------------------
(* Claims about the default strategy, checked under SpecLoad *)

(* This step executes a sub-query. *)
Issued == sub'.n = sub.n + 1

(* The association the top activation is at. *)
AtAssoc ==
    /\ res = Running
    /\ stack # << >>
    /\ Top.pc = "assoc"
    /\ Top.a <= Len(Top.assos)

NoRowsErrors == {ErrNoRows, ErrWrappedNoRows}

(* The call is over and no new call starts in this step. *)
StaysOver == res # Running /\ ~(sub' = NoQuery /\ mem' = call'.mem0)

(* C5: a fetch-first that ends with the no-rows error leaves the model as  *)
(* it was (a field at its zero value stays there), the error is not        *)
(* returned and the activation goes on at the same association's inner     *)
(* associations; any other error of a fetch ends the whole call at once    *)
(* with that error as its result.                                          *)
C5_NoRowsTolerated ==
    [][ Issued =>
          /\ (sub'.op = "First" /\ sub'.err \in NoRowsErrors)
                => /\ mem' = mem
                   /\ res' = Running
                   /\ stack' = SetTop([Top EXCEPT !.pc = "inner", !.j = 1])
          /\ (sub'.err \notin NoRowsErrors \cup {Nil})
                => /\ res' = sub'.err
                   /\ stack' = << >> ]_vars

(* A call that returned nil although its last fetch-first found no rows;   *)
(* the field is at its zero value.                                         *)
C5_Witness ==
    /\ res = Nil
    /\ sub.n > 1
    /\ sub.op = "First"
    /\ sub.err = ErrNoRows
    /\ mem[FieldAt(sub.model, sub.name)].val = "zero"

(* The element of the root collection being resolved, -1 when none. *)
RootI == IF stack # << >> /\ stack[1].pc = "loop" THEN stack[1].i ELSE -1

(* Element k of the root collection and everything below it is, in model   *)
(* m, as the caller passed it, and the sub-query sq is not about it.       *)
Untouched(k, m, sq) ==
    /\ \A p \in DOMAIN m :
          IsPrefix(ElemAt(<< >>, k), p) => p \in DOMAIN call.mem0 /\ m[p] = call.mem0[p]
    /\ \A p \in DOMAIN call.mem0 : IsPrefix(ElemAt(<< >>, k), p) => p \in DOMAIN m
    /\ sq.n > 0 => ~IsPrefix(ElemAt(<< >>, k), sq.model)

LaterUntouched(i, m, sq) ==
    \A k \in (i + 1)..(call.mem0[<< >>].len - 1) : Untouched(k, m, sq)

(* C6: the elements of a collection are resolved one at a time in index    *)
(* order, element i+1 starting only when the resolution of element i has   *)
(* returned; once a fetch of element k failed the call is over with that   *)
(* error, and the elements after k are as the caller passed them and got   *)
(* no sub-query.                                                           *)
C6_ElementsInOrder ==
    /\ [](RootI >= 0 =>
            /\ RootI <= mem[<< >>].len
            /\ Len(stack) >= 2 => stack[2].model = ElemAt(<< >>, RootI)
            /\ LaterUntouched(RootI, mem, sub))
    /\ []((sub.n > 0 /\ sub.err \notin NoRowsErrors \cup {Nil})
            => res = sub.err /\ stack = << >>)
    /\ [][ /\ (RootI >= 0 /\ RootI' >= 0 /\ RootI' # RootI)
                => RootI' = RootI + 1 /\ Len(stack) = 2 /\ Len(stack') = 1
           /\ (RootI >= 0 /\ res' # Running) => LaterUntouched(RootI, mem', sub')
           /\ StaysOver => UNCHANGED <<mem, sub, stack, res>> ]_vars

(* A collection of two whose first element failed: the call returned the   *)
(* error and the second element is as it was passed.                       *)
C6_Witness ==
    /\ call.q # 0
    /\ call.mem0[<< >>].kind = "Slice"
    /\ call.mem0[<< >>].len = 2
    /\ res = ErrDB
    /\ sub.n > 0
    /\ sub.model[1] = "0"
    /\ Untouched(1, mem, sub)

(* C7: at a skipped association the only step goes to the next             *)
(* association: no sub-query, the model unchanged, no activation for its   *)
(* inner associations.                                                     *)
C7_SkippedUntouched ==
    [][ (AtAssoc /\ Top.assos[Top.a].skipped)
          => /\ sub' = sub
             /\ mem' = mem
             /\ res' = res
             /\ stack' = SetTop([Top EXCEPT !.a = Top.a + 1]) ]_vars

(* The first association of a record was skipped: its populated field is   *)
(* what the caller passed and no sub-query was issued.                     *)
C7_Witness ==
    /\ res = Running
    /\ stack # << >>
    /\ Top.pc = "assoc"
    /\ Top.a = 2
    /\ Top.assos[1].skipped
    /\ Top.assos[1].inner # << >>
    /\ sub = NoQuery
    /\ mem[FieldAt(Top.model, Top.assos[1].name)].val = "old"

(* C8: a load whose effective mode is cache returns nil, issues no         *)
(* sub-query and leaves the model as the caller passed it.                 *)
C8_CacheNoOp ==
    (/\ call.q # 0
     /\ \/ call.mode0 = EagerCache
        \/ call.mode0 = eagerNotSpecified /\ call.emode = EagerCache)
        => /\ res = Nil
           /\ sub = NoQuery
           /\ stack = << >>
           /\ mem = call.mem0

(* A cache load of a collection of two records with populated fields. *)
C8_Witness ==
    /\ call.q # 0
    /\ call.strategy = "cache"
    /\ res = Nil
    /\ mem[<< >>].kind = "Slice"
    /\ mem[<< >>].len = 2
    /\ mem[<< "1", "Profile" >>].val = "old"

(* C9: a fetch that fails with an error other than no-rows leaves the      *)
(* model as it was before the fetch (nothing populated earlier is rolled   *)
(* back) and ends the call; from then on nothing is loaded.                *)
C9_NoRollback ==
    [][ /\ (Issued /\ sub'.err \notin NoRowsErrors \cup {Nil})
              => /\ mem' = mem
                 /\ stack' = << >>
                 /\ res' = sub'.err
        /\ StaysOver => UNCHANGED <<mem, sub, stack, res>> ]_vars

(* The fetch of the second association failed after the first one had      *)
(* populated its field, which is still populated.                          *)
C9_Witness ==
    /\ res = ErrDB
    /\ sub.n > 1
    /\ sub.name = "Profile"
    /\ sub.err = ErrDB
    /\ mem[FieldAt(sub.model, "Books")].val = "new"
    /\ mem[FieldAt(sub.model, "Books")].len > 0

(* C10: the sub-query of a sortable association carries an order clause    *)
(* exactly when OrderBy() is not empty, and then that string; otherwise    *)
(* the sub-query has no ordering.                                          *)
C10_OrderClause ==
    [][ (Issued /\ AtAssoc) =>
          LET d == Top.assos[Top.a]
          IN /\ sub'.model = Top.model /\ sub'.name = d.name
             /\ (d.sortable /\ d.orderBy # "") => sub'.order = d.orderBy
             /\ (~d.sortable \/ d.orderBy = "") => sub'.order = NoOrder ]_vars

(* The sub-query of a record's Books executed with the clause OrderBy()    *)
(* returned.                                                               *)
C10_Witness ==
    /\ sub.n > 1
    /\ sub.name = "Books"
    /\ sub.order = "title asc"
    /\ mem[<< >>].kind = "Slice"
    /\ mem[<< "0", "Books" >>].val = "new"

(* This step starts the nested recursion for an inner association. *)
InnerCall ==
    /\ res = Running
    /\ stack # << >>
    /\ Top.pc = "inner"
    /\ Len(stack') = Len(stack) + 1

(* C11: the nested recursion for an inner association starts only after    *)
(* the association's own field has been populated by its fetch, and it     *)
(* works on the field inner.Name of the owning record.                     *)
C11_NestedAfterPopulated ==
    [][ InnerCall =>
          LET d == Top.assos[Top.a]
          IN /\ mem[FieldAt(Top.model, d.name)].val = "new"
             /\ Top.j = 1 => /\ sub.n > 0
                             /\ sub.model = Top.model
                             /\ sub.name = d.name
                             /\ sub.err = Nil
             /\ stack'[Len(stack')].model = FieldAt(Top.model, d.inner[Top.j].Name) ]_vars

(* C13: a fetch-all that ends with the no-rows error ends the call with    *)
(* that error, like any other error of a fetch.                            *)
C13_NoRowsFatalForAll ==
    [][ (Issued /\ sub'.op = "All" /\ sub'.err \in NoRowsErrors)
          => res' = sub'.err /\ stack' = << >> ]_vars

(* The names of the associations a whitelist lets through for a type. *)
NamesFor(type, fields) ==
    { Decls(type)[k].name : k \in { x \in 1..Len(Decls(type)) :
                                      Len(fields) = 0 \/ Decls(type)[x].name \in Range(fields) } }

(* C14: every element of the root collection is introspected with the      *)
(* whitelist the call was given, whatever the nested recursion of earlier  *)
(* elements did.                                                           *)
C14_SameWhitelistPerElement ==
    (/\ RootI >= 0
     /\ Len(stack) = 2
     /\ stack[2].pc = "assoc")
        => { stack[2].assos[k].name : k \in 1..Len(stack[2].assos) }
             = NamesFor(mem[stack[2].model].type, call.fields0)

(* C20: when a load has returned, the query's whitelist and stored mode    *)
(* are what they were when the load started.                               *)
C20_QueryConfigRestored ==
    (call.q # 0 /\ res # Running)
        => /\ queries[call.q].eagerFields = call.fields0
           /\ queries[call.q].eagerMode = call.mode0

(* The place of a path component among its siblings: the index of an       *)
(* element, the position of a field's descriptor in its record.            *)
Types == {"Author", "Book", "Leaf"}
MaxIndex == MaxElems + MaxRows
Rank(c) ==
    IF \E k \in 0..MaxIndex : ToString(k) = c
    THEN CHOOSE k \in 0..MaxIndex : ToString(k) = c
    ELSE CHOOSE r \in 1..MaxIndex + 2 :
            \E t \in Types : r <= Len(Decls(t)) /\ Decls(t)[r].name = c

(* p comes before q in a depth-first, left-to-right walk. *)
Before(p, q) ==
    \/ Len(p) < Len(q) /\ IsPrefix(p, q)
    \/ \E k \in 1..Len(p) :
          /\ k <= Len(q)
          /\ SubSeq(p, 1, k - 1) = SubSeq(q, 1, k - 1)
          /\ Rank(p[k]) < Rank(q[k])

(* The field a sub-query loads. *)
Target(sq) == FieldAt(sq.model, sq.name)

(* C15: sub-queries are issued depth-first and left to right: each one     *)
(* loads a field that comes after the field of the one before it, siblings *)
(* in descriptor order and everything nested under association i before    *)
(* association i+1.                                                        *)
C15_DepthFirstOrder ==
    [][ (Issued /\ sub.n > 0) => Before(Target(sub), Target(sub')) ]_vars

(* Profile of a record is fetched after Books and a nested Publisher. *)
C15_Witness ==
    /\ sub.n >= 3
    /\ sub.name = "Profile"
    /\ sub.model = << >>

(* The record on top is about to be introspected, and this step does not   *)
(* hand it a list of associations.                                         *)
IntrospectionFails ==
    /\ res = Running
    /\ stack # << >>
    /\ Top.pc = "intro"
    /\ ~(Len(stack') = Len(stack) /\ stack'[Len(stack')].pc = "assoc")

(* C17: a failed introspection of a record ends the call at once with that *)
(* error; the record got no sub-query, the elements after it are as the    *)
(* caller passed them, and what was loaded before stays loaded.            *)
C17_IntrospectionFailure ==
    [][ IntrospectionFails =>
          /\ res' = ErrIntrospect
          /\ stack' = << >>
          /\ sub' = sub
          /\ sub.n > 0 => sub.model # Top.model
          /\ mem' = mem
          /\ RootI >= 0 => LaterUntouched(RootI, mem', sub') ]_vars

(* Element 1 of a collection of two fails to introspect after element 0    *)
(* got its Profile: element 0 keeps it, element 1 is as it was passed.     *)
C17_Witness ==
    /\ call.q # 0
    /\ call.mem0[<< >>].kind = "Slice"
    /\ call.mem0[<< >>].len = 2
    /\ res = ErrIntrospect
    /\ sub.n > 0
    /\ sub.model = << "0" >>
    /\ sub.name = "Profile"
    /\ sub.err = Nil
    /\ mem[<< "0", "Profile" >>].val = "new"
    /\ Untouched(1, mem, sub)

(* The queries that existed before the step are the same after it. *)
ExistingQueriesKept ==
    /\ Len(queries') >= Len(queries)
    /\ \A k \in DOMAIN queries : queries'[k] = queries[k]

(* The queries that differ before and after the step. *)
ChangedQueries == { k \in DOMAIN queries : queries'[k] # queries[k] }

(* C19: the mode setters stay in their scope. A step that changes the      *)
(* process-wide mode changes no query, and a step of a query's or a        *)
(* connection's setter, or of a load, leaves the process-wide mode alone;  *)
(* a step that makes a query makes one and keeps the existing ones; a      *)
(* setter step on an existing query changes the mode of that one query,    *)
(* the one the caller gave a mode, and nothing else of any query.          *)
C19_SetterScopes ==
    [][ /\ emode' # emode => queries' = queries
        /\ (res = Running \/ res' = Running \/ call' # call) => emode' = emode
        /\ Len(queries') # Len(queries) =>
              /\ Len(queries') = Len(queries) + 1
              /\ ExistingQueriesKept
        /\ (Len(queries') = Len(queries) /\ res # Running /\ call' = call) =>
              /\ Cardinality(ChangedQueries) <= 1
              /\ \A k \in ChangedQueries : given'[k].explicit
              /\ \A k \in DOMAIN queries :
                    /\ queries'[k].eagerFields = queries[k].eagerFields
                    /\ queries'[k].Connection = queries[k].Connection ]_vars

(* Two queries holding different modes of their own, and a process-wide    *)
(* mode set after both were made that differs from either.                 *)
C19_Witness ==
    /\ Len(queries) = 2
    /\ given[1].explicit /\ given[2].explicit
    /\ given[1].stale /\ given[2].stale
    /\ queries[1].eagerMode # queries[2].eagerMode
    /\ emode # queries[1].eagerMode
    /\ emode # queries[2].eagerMode

(* Introspection of the record on top has yielded no association. *)
NoAssociations ==
    /\ res = Running
    /\ stack # << >>
    /\ Top.pc = "assoc"
    /\ Top.assos = << >>

(* C12: a record for which introspection yields no association is resolved *)
(* with success and without a sub-query; a load of such a record, of a     *)
(* collection of such records or of an empty collection issues no          *)
(* sub-query, leaves the model as it was and, unless an introspection      *)
(* failed, returns nil.                                                    *)
C12_NothingToLoad ==
    /\ [][ NoAssociations =>
             /\ sub' = sub
             /\ mem' = mem
             /\ IF Len(stack) = 1
                THEN res' = Nil /\ stack' = << >>
                ELSE res' = Running /\ Len(stack') = Len(stack) - 1 ]_vars
    /\ []((NoAssociations /\ Len(stack) = 1) => sub = NoQuery /\ mem = call.mem0)
    /\ []((/\ call.q # 0
           /\ call.strategy = "default"
           /\ res # Running
           /\ \/ NamesFor(call.mem0[<< >>].type, call.fields0) = {}
              \/ call.mem0[<< >>].kind = "Slice" /\ call.mem0[<< >>].len = 0)
            => /\ sub = NoQuery
               /\ mem = call.mem0
               /\ res \in {Nil, ErrIntrospect}
               /\ (call.mem0[<< >>].kind = "Slice" /\ call.mem0[<< >>].len = 0)
                     => res = Nil)

(* A load of one record without associations has returned nil. *)
C12_Witness ==
    /\ call.q # 0
    /\ call.strategy = "default"
    /\ call.mem0[<< >>].kind = "Struct"
    /\ call.mem0[<< >>].type = "Leaf"
    /\ res = Nil
    /\ sub = NoQuery
    /\ mem = call.mem0

(* C16: every sub-query is made on the connection of the query that loads, *)
(* is not that query, and is executed with eager loading off: executing it *)
(* starts no load and no new activation, and leaves every query as it is.  *)
C16_SubQueryNotEager ==
    [][ Issued =>
          /\ sub'.eager = FALSE
          /\ sub'.Connection = queries[call.q].Connection
          /\ queries' = queries
          /\ call' = call
          /\ stack' = << >> \/ Len(stack') = Len(stack) ]_vars

(* A sub-query has been executed on the second connection. *)
C16_Witness ==
    /\ sub.n > 0
    /\ sub.Connection = "c2"
    /\ queries[call.q].Connection = "c2"
    /\ sub.err = Nil
    /\ res = Running

(* The next association of the record on top is not skipped, and the       *)
(* record does not hold the key values its constraint needs.               *)
OwnerLacksKeys ==
    /\ AtAssoc
    /\ ~Top.assos[Top.a].skipped
    /\ mem[Top.model].val = "zero"

(* C18: when the owning record lacks the key values of an association's    *)
(* constraint the call ends with an error and no sub-query is issued.      *)
C18_ConstraintFailureFatal ==
    [][ OwnerLacksKeys =>
          /\ ~Issued
          /\ stack' = << >>
          /\ res' \notin {Running, Nil} ]_vars

=============================================================================
